---------------------------- MODULE Spec2Model ----------------------------
(***************************************************************************)
(* Sales analytics system: the record parser (main.py clean_sales_data),   *)
(* the enrichment merger (utils/api_handler.py), the aggregation engine    *)
(* (utils/data_processor.py), the report formatter and the pipeline        *)
(* driver (main.py generate_sales_report, main).                           *)
(*                                                                         *)
(* Text is modelled as a sequence of one-character strings, so that        *)
(* strip, split, replace and int() are computed and not assumed.           *)
(***************************************************************************)
EXTENDS Integers, Sequences, FiniteSets, TLC

VARIABLES
    \* clean_sales_data (main.py:9-87)
    parser_pc,        \* "open" | "loop" | "returned"
    file,             \* the lines of the input file, header first
    pos,              \* number of lines of the file consumed so far
    total_records,
    invalid_count,
    valid_records,
    \* the product API and the enrichment merger (utils/api_handler.py)
    enrich_pc,        \* "fetch" | "map" | "enrich" | "returned" | "raised"
    http,             \* what the HTTP request to the product API comes to
    api_products,     \* the list fetch_all_products returned
    product_mapping,  \* the dict create_product_mapping returned
    transactions,     \* the transactions handed to enrich_sales_data
    tx_index,         \* transactions the loop of enrich_sales_data has passed
    enriched_transactions,
    enriched_file,    \* the lines of data/enriched_sales_data.txt
    enrich_exc,       \* the exception that left enrich_sales_data, or "none"
    \* the aggregation engine (utils/data_processor.py)
    agg_pc,           \* "ready" when the functions are applied to transactions
    total_revenue,    \* what calculate_total_revenue(transactions) came to
    region_sales,     \* what region_wise_sales(transactions) came to
    top_products,     \* what top_selling_products(transactions) came to
    peak_day,         \* what find_peak_sales_day(transactions) came to
    low_products,     \* what low_performing_products(transactions) came to
    \* generate_sales_report (main.py)
    report_pc,        \* where the call of generate_sales_report is
    report_sections,  \* the computed sections of the report
    report_file,      \* output/sales_report.txt: whether there, and its sections
    report_exc,       \* the exception that left generate_sales_report, or "none"
    \* main (main.py), the pipeline run
    main_pc,              \* where main() is
    sales_data,           \* data/sales_data.txt: whether there, and its lines
    raw_lines,            \* what read_sales_data returned
    parsed_transactions,  \* what parse_transactions returned
    filter_criteria,      \* region_filter, min_amount and max_amount
    main_exc,             \* the exception raised in the try block, or "none"
    failure_messages,     \* how often the failure message was printed
    \* the filter engine (validate_and_filter)
    filter_pc,            \* "call" before the call, "returned" after it
    criteria,             \* region_filter, min_amount and max_amount of the call
    filter_result         \* what validate_and_filter came to

parserVars == <<parser_pc, file, pos, total_records, invalid_count, valid_records>>

enrichVars == <<enrich_pc, http, api_products, product_mapping, transactions,
                tx_index, enriched_transactions, enriched_file, enrich_exc>>

aggVars == <<agg_pc, total_revenue, region_sales, top_products, peak_day, low_products>>

reportVars == <<report_pc, report_sections, report_file, report_exc>>

mainVars == <<main_pc, sales_data, raw_lines, parsed_transactions, filter_criteria,
              main_exc, failure_messages>>

filterVars == <<filter_pc, criteria, filter_result>>

vars == <<parserVars, enrichVars, aggVars, reportVars, mainVars, filterVars>>

\* What the steps of one component leave alone.
notParserVars == <<enrichVars, aggVars, reportVars, mainVars, filterVars>>

notEnrichVars == <<parserVars, aggVars, reportVars, mainVars, filterVars>>

\* The aggregation functions read the transactions and change nothing else.
notAggVars == <<parserVars, enrichVars, reportVars, mainVars, filterVars>>

\* The report reads the transactions and the enriched transactions.
notReportVars == <<parserVars, enrichVars, aggVars, mainVars, filterVars>>

\* The run stops before it calls the other components (main.py:308).
notMainVars == <<parserVars, enrichVars, aggVars, reportVars, filterVars>>

\* The filter reads the transactions and changes nothing else.
notFilterVars == <<parserVars, enrichVars, aggVars, reportVars, mainVars>>

---------------------------------------------------------------------------
(* Bounds of the model.                                                    *)

MaxLines == 2        \* data lines of an input file (after the header)

MaxTx == 2           \* transactions handed to a component

MaxProducts == 2     \* products in a response of the product API

---------------------------------------------------------------------------
(* Python text primitives.                                                 *)

Whitespace == {" ", "\t", "\n", "\r"}

Digits == {"0", "1", "2", "3", "4", "5", "6", "7", "8", "9"}

DigitValue(c) ==
    CASE c = "0" -> 0 [] c = "1" -> 1 [] c = "2" -> 2 [] c = "3" -> 3
      [] c = "4" -> 4 [] c = "5" -> 5 [] c = "6" -> 6 [] c = "7" -> 7
      [] c = "8" -> 8 [] c = "9" -> 9

\* str.strip(): leading and trailing whitespace removed.
RECURSIVE lstrip(_)
lstrip(s) ==
    IF s # <<>> /\ Head(s) \in Whitespace THEN lstrip(Tail(s)) ELSE s

RECURSIVE rstrip(_)
rstrip(s) ==
    IF s # <<>> /\ s[Len(s)] \in Whitespace
    THEN rstrip(SubSeq(s, 1, Len(s) - 1))
    ELSE s

strip(s) == rstrip(lstrip(s))

\* str.split(sep): the pieces between the occurrences of sep, in order.
RECURSIVE split(_, _)
split(s, sep) ==
    IF \E i \in 1..Len(s) : s[i] = sep
    THEN LET i == CHOOSE k \in 1..Len(s) :
                      s[k] = sep /\ \A j \in 1..(k - 1) : s[j] # sep
         IN  <<SubSeq(s, 1, i - 1)>> \o split(SubSeq(s, i + 1, Len(s)), sep)
    ELSE <<s>>

\* str.replace(old, ''): every occurrence of the character removed.
replace(s, old) == SelectSeq(s, LAMBDA c : c # old)

\* str.startswith(prefix) for a one-character prefix.
startswith(s, prefix) == Len(s) > 0 /\ s[1] = prefix

\* The value of a digit string that may hold single underscores.
RECURSIVE DigitsValue(_, _)
DigitsValue(s, acc) ==
    IF s = <<>> THEN acc
    ELSE IF Head(s) = "_" THEN DigitsValue(Tail(s), acc)
    ELSE DigitsValue(Tail(s), 10 * acc + DigitValue(Head(s)))

\* int(text): surrounding whitespace ignored, an optional sign, then decimal
\* digits, single underscores allowed between digits; anything else raises
\* ValueError (ok = FALSE).
PyInt(text) ==
    LET t      == strip(text)
        signed == Len(t) > 0 /\ t[1] \in {"+", "-"}
        body   == IF signed THEN Tail(t) ELSE t
        wellFormed ==
            /\ Len(body) > 0
            /\ \A i \in 1..Len(body) : body[i] \in Digits \cup {"_"}
            /\ body[1] # "_" /\ body[Len(body)] # "_"
            /\ \A i \in 1..(Len(body) - 1) : ~(body[i] = "_" /\ body[i + 1] = "_")
    IN  IF wellFormed
        THEN [ok |-> TRUE,
              value |-> (IF signed /\ t[1] = "-" THEN -1 ELSE 1) * DigitsValue(body, 0)]
        ELSE [ok |-> FALSE, value |-> 0]

---------------------------------------------------------------------------
(* Input files of the record parser: a header line and up to MaxLines data  *)
(* lines, each drawn from the sample lines below (as the file iterator      *)
(* yields them, with the line terminator).                                  *)

\* The scenario of the specification: T001|2024-01-05|P101|Widget,Pro|2|500|C001|North
Line_Scenario ==
    <<"T", "0", "0", "1", "|", "2", "0", "2", "4", "-", "0", "1", "-", "0", "5", "|", "P", "1", "0", "1", "|", "W", "i", "d", "g", "e", "t", ",", "P", "r", "o", "|", "2", "|", "5", "0", "0", "|", "C", "0", "0", "1", "|", "N", "o", "r", "t", "h", "\n">>

\* Commas in quantity and customer id, blanks around the line and before the region:  T2|2024-01-06|P2|Pen|1,0|3|C,2| South 
Line_Commas ==
    <<" ", "T", "2", "|", "2", "0", "2", "4", "-", "0", "1", "-", "0", "6", "|", "P", "2", "|", "P", "e", "n", "|", "1", ",", "0", "|", "3", "|", "C", ",", "2", "|", " ", "S", "o", "u", "t", "h", " ", "\n">>

\* Blanks and a plus sign around the numbers: T3|2024-01-07|P3|Ink| 2 |+4|C3|East
Line_SpacedNumber ==
    <<"T", "3", "|", "2", "0", "2", "4", "-", "0", "1", "-", "0", "7", "|", "P", "3", "|", "I", "n", "k", "|", " ", "2", " ", "|", "+", "4", "|", "C", "3", "|", "E", "a", "s", "t", "\n">>

\* An empty line: 
Line_Blank ==
    <<"\n">>

\* A line of whitespace only:   <TAB>
Line_WhitespaceOnly ==
    <<" ", " ", "\t", "\n">>

\* 7 fields: T4|2024-01-05|P1|Pen|1|5|C1
Line_SevenFields ==
    <<"T", "4", "|", "2", "0", "2", "4", "-", "0", "1", "-", "0", "5", "|", "P", "1", "|", "P", "e", "n", "|", "1", "|", "5", "|", "C", "1", "\n">>

\* 9 fields: T5|2024-01-05|P1|Pen|1|5|C1|West|x
Line_NineFields ==
    <<"T", "5", "|", "2", "0", "2", "4", "-", "0", "1", "-", "0", "5", "|", "P", "1", "|", "P", "e", "n", "|", "1", "|", "5", "|", "C", "1", "|", "W", "e", "s", "t", "|", "x", "\n">>

\* Transaction id without the T prefix: X6|2024-01-05|P1|Pen|1|5|C1|West
Line_BadPrefix ==
    <<"X", "6", "|", "2", "0", "2", "4", "-", "0", "1", "-", "0", "5", "|", "P", "1", "|", "P", "e", "n", "|", "1", "|", "5", "|", "C", "1", "|", "W", "e", "s", "t", "\n">>

\* Empty transaction id: |2024-01-05|P1|Pen|1|5|C1|West
Line_EmptyTransactionID ==
    <<"|", "2", "0", "2", "4", "-", "0", "1", "-", "0", "5", "|", "P", "1", "|", "P", "e", "n", "|", "1", "|", "5", "|", "C", "1", "|", "W", "e", "s", "t", "\n">>

\* Customer id of blanks only: T7|2024-01-05|P1|Pen|1|5|  |West
Line_BlankCustomer ==
    <<"T", "7", "|", "2", "0", "2", "4", "-", "0", "1", "-", "0", "5", "|", "P", "1", "|", "P", "e", "n", "|", "1", "|", "5", "|", " ", " ", "|", "W", "e", "s", "t", "\n">>

\* Region of a blank only: T8|2024-01-05|P1|Pen|1|5|C1| 
Line_EmptyRegion ==
    <<"T", "8", "|", "2", "0", "2", "4", "-", "0", "1", "-", "0", "5", "|", "P", "1", "|", "P", "e", "n", "|", "1", "|", "5", "|", "C", "1", "|", " ", "\n">>

\* Quantity is not a number: T9|2024-01-05|P1|Pen|abc|5|C1|West
Line_NonNumericQuantity ==
    <<"T", "9", "|", "2", "0", "2", "4", "-", "0", "1", "-", "0", "5", "|", "P", "1", "|", "P", "e", "n", "|", "a", "b", "c", "|", "5", "|", "C", "1", "|", "W", "e", "s", "t", "\n">>

\* Unit price with a decimal point: T10|2024-01-05|P1|Pen|1|2.5|C1|West
Line_DecimalPrice ==
    <<"T", "1", "0", "|", "2", "0", "2", "4", "-", "0", "1", "-", "0", "5", "|", "P", "1", "|", "P", "e", "n", "|", "1", "|", "2", ".", "5", "|", "C", "1", "|", "W", "e", "s", "t", "\n">>

\* Empty quantity: T11|2024-01-05|P1|Pen||5|C1|West
Line_EmptyQuantity ==
    <<"T", "1", "1", "|", "2", "0", "2", "4", "-", "0", "1", "-", "0", "5", "|", "P", "1", "|", "P", "e", "n", "|", "|", "5", "|", "C", "1", "|", "W", "e", "s", "t", "\n">>

\* Unit price 0: T12|2024-01-05|P1|Pen|1|0|C1|West
Line_ZeroPrice ==
    <<"T", "1", "2", "|", "2", "0", "2", "4", "-", "0", "1", "-", "0", "5", "|", "P", "1", "|", "P", "e", "n", "|", "1", "|", "0", "|", "C", "1", "|", "W", "e", "s", "t", "\n">>

\* Negative quantity: T13|2024-01-05|P1|Pen|-1|5|C1|West
Line_NegativeQuantity ==
    <<"T", "1", "3", "|", "2", "0", "2", "4", "-", "0", "1", "-", "0", "5", "|", "P", "1", "|", "P", "e", "n", "|", "-", "1", "|", "5", "|", "C", "1", "|", "W", "e", "s", "t", "\n">>

SampleLines ==
    {Line_Scenario,
     Line_Commas,
     Line_SpacedNumber,
     Line_Blank,
     Line_WhitespaceOnly,
     Line_SevenFields,
     Line_NineFields,
     Line_BadPrefix,
     Line_EmptyTransactionID,
     Line_BlankCustomer,
     Line_EmptyRegion,
     Line_NonNumericQuantity,
     Line_DecimalPrice,
     Line_EmptyQuantity,
     Line_ZeroPrice,
     Line_NegativeQuantity}

Header ==
    <<"T", "r", "a", "n", "s", "a", "c", "t", "i", "o", "n", "I", "D", "|", "D", "a", "t", "e", "|", "P", "r", "o", "d", "u", "c", "t", "I", "D", "|", "P", "r", "o", "d", "u", "c", "t", "N", "a", "m", "e", "|", "Q", "u", "a", "n", "t", "i", "t", "y", "|", "U", "n", "i", "t", "P", "r", "i", "c", "e", "|", "C", "u", "s", "t", "o", "m", "e", "r", "I", "D", "|", "R", "e", "g", "i", "o", "n", "\n">>

RECURSIVE SeqsUpTo(_, _)
SeqsUpTo(S, n) ==
    IF n = 0 THEN {<<>>}
    ELSE LET shorter == SeqsUpTo(S, n - 1)
         IN  shorter \cup {Append(s, x) : s \in {t \in shorter : Len(t) = n - 1}, x \in S}

InputFiles == {<<>>} \cup {<<Header>> \o ls : ls \in SeqsUpTo(SampleLines, MaxLines)}

---------------------------------------------------------------------------
(* clean_sales_data (main.py:9-87).                                         *)

\* The line under the loop variable, stripped (main.py:17-18).
CurrentLine == strip(file[pos + 1])

\* main.py:26
Parts == split(CurrentLine, "|")

\* main.py:59-60: the numeric fields with their commas removed, parsed.
CleanQuantity(parts) == PyInt(replace(parts[5], ","))

CleanUnitPrice(parts) == PyInt(replace(parts[6], ","))

\* A parser that lets a zero through.
NumericRuleBroken_NegativeOnly(quantity, unit_price) == quantity < 0 \/ unit_price < 0

\* main.py:66: the numeric rule a record must not break.
NumericRuleBroken(quantity, unit_price) == quantity <= 0 \/ unit_price <= 0

\* A parser that removes the commas from every field.
ValidRecord_CommasEverywhere(parts) ==
    <<replace(parts[1], ","), replace(parts[2], ","), replace(parts[3], ","),
      replace(parts[4], ","),
      CleanQuantity(parts).value, CleanUnitPrice(parts).value,
      replace(parts[7], ","), replace(parts[8], ",")>>

\* main.py:45, 71-80: the record appended for a valid line.
ValidRecord(parts) ==
    <<parts[1], parts[2], parts[3], replace(parts[4], ","),
      CleanQuantity(parts).value, CleanUnitPrice(parts).value,
      parts[7], parts[8]>>

InLoop == parser_pc = "loop" /\ pos < Len(file)

\* main.py:15: the header is read and discarded.
ReadHeader ==
    /\ parser_pc = "open"
    /\ parser_pc' = "loop"
    /\ pos' = IF Len(file) > 0 THEN 1 ELSE 0
    /\ UNCHANGED <<file, total_records, invalid_count, valid_records>>
    /\ UNCHANGED notParserVars

\* main.py:21-22
SkipEmptyLine ==
    /\ InLoop
    /\ CurrentLine = <<>>
    /\ pos' = pos + 1
    /\ UNCHANGED <<parser_pc, file, total_records, invalid_count, valid_records>>
    /\ UNCHANGED notParserVars

\* A parser that drops a line of the wrong field count without counting it.
RejectFieldCount_Uncounted ==
    /\ InLoop
    /\ CurrentLine # <<>>
    /\ Len(Parts) # 8
    /\ pos' = pos + 1
    /\ total_records' = total_records + 1
    /\ UNCHANGED <<parser_pc, file, invalid_count, valid_records>>
    /\ UNCHANGED notParserVars

\* main.py:24-31
RejectFieldCount ==
    /\ InLoop
    /\ CurrentLine # <<>>
    /\ Len(Parts) # 8
    /\ pos' = pos + 1
    /\ total_records' = total_records + 1
    /\ invalid_count' = invalid_count + 1
    /\ UNCHANGED <<parser_pc, file, valid_records>>
    /\ UNCHANGED notParserVars

\* main.py:48-50
RejectTransactionID ==
    /\ InLoop
    /\ CurrentLine # <<>>
    /\ Len(Parts) = 8
    /\ ~startswith(Parts[1], "T")
    /\ pos' = pos + 1
    /\ total_records' = total_records + 1
    /\ invalid_count' = invalid_count + 1
    /\ UNCHANGED <<parser_pc, file, valid_records>>
    /\ UNCHANGED notParserVars

\* main.py:53-55
RejectCustomerOrRegion ==
    /\ InLoop
    /\ CurrentLine # <<>>
    /\ Len(Parts) = 8
    /\ startswith(Parts[1], "T")
    /\ (strip(Parts[7]) = <<>> \/ strip(Parts[8]) = <<>>)
    /\ pos' = pos + 1
    /\ total_records' = total_records + 1
    /\ invalid_count' = invalid_count + 1
    /\ UNCHANGED <<parser_pc, file, valid_records>>
    /\ UNCHANGED notParserVars

\* main.py:58-63: int() raised ValueError.
RejectNotInteger ==
    /\ InLoop
    /\ CurrentLine # <<>>
    /\ Len(Parts) = 8
    /\ startswith(Parts[1], "T")
    /\ strip(Parts[7]) # <<>> /\ strip(Parts[8]) # <<>>
    /\ (~CleanQuantity(Parts).ok \/ ~CleanUnitPrice(Parts).ok)
    /\ pos' = pos + 1
    /\ total_records' = total_records + 1
    /\ invalid_count' = invalid_count + 1
    /\ UNCHANGED <<parser_pc, file, valid_records>>
    /\ UNCHANGED notParserVars

\* main.py:66-68
RejectNotPositive ==
    /\ InLoop
    /\ CurrentLine # <<>>
    /\ Len(Parts) = 8
    /\ startswith(Parts[1], "T")
    /\ strip(Parts[7]) # <<>> /\ strip(Parts[8]) # <<>>
    /\ CleanQuantity(Parts).ok /\ CleanUnitPrice(Parts).ok
    /\ NumericRuleBroken(CleanQuantity(Parts).value, CleanUnitPrice(Parts).value)
    /\ pos' = pos + 1
    /\ total_records' = total_records + 1
    /\ invalid_count' = invalid_count + 1
    /\ UNCHANGED <<parser_pc, file, valid_records>>
    /\ UNCHANGED notParserVars

\* main.py:71-80
AppendValidRecord ==
    /\ InLoop
    /\ CurrentLine # <<>>
    /\ Len(Parts) = 8
    /\ startswith(Parts[1], "T")
    /\ strip(Parts[7]) # <<>> /\ strip(Parts[8]) # <<>>
    /\ CleanQuantity(Parts).ok /\ CleanUnitPrice(Parts).ok
    /\ ~NumericRuleBroken(CleanQuantity(Parts).value, CleanUnitPrice(Parts).value)
    /\ pos' = pos + 1
    /\ total_records' = total_records + 1
    /\ valid_records' = Append(valid_records, ValidRecord(Parts))
    /\ UNCHANGED <<parser_pc, file, invalid_count>>
    /\ UNCHANGED notParserVars

\* main.py:83-87: the file is exhausted, the counts are printed and the valid
\* records returned.
ReturnValidRecords ==
    /\ parser_pc = "loop"
    /\ pos >= Len(file)
    /\ parser_pc' = "returned"
    /\ UNCHANGED <<file, pos, total_records, invalid_count, valid_records>>
    /\ UNCHANGED notParserVars

\* The parser at rest, in the specifications of the other components.
ParserIdle ==
    /\ parser_pc = "idle"
    /\ file = <<>>
    /\ pos = 0
    /\ total_records = 0
    /\ invalid_count = 0
    /\ valid_records = <<>>

ParserInit ==
    /\ parser_pc = "open"
    /\ file \in InputFiles
    /\ pos = 0
    /\ total_records = 0
    /\ invalid_count = 0
    /\ valid_records = <<>>

ParserNext ==
    \/ ReadHeader
    \/ SkipEmptyLine
    \/ RejectFieldCount
    \/ RejectTransactionID
    \/ RejectCustomerOrRegion
    \/ RejectNotInteger
    \/ RejectNotPositive
    \/ AppendValidRecord
    \/ ReturnValidRecords


---------------------------------------------------------------------------
(* Python values of the product API: a JSON value carries its type, None    *)
(* is a value of its own.                                                   *)

None == <<"None">>

Str(s) == <<"str", s>>

Num(n) == <<"num", n>>

\* dict.get(key): the value under the key, None when the key is missing.
Get(d, key) == IF key \in DOMAIN d THEN d[key] ELSE None

\* The text of a character sequence as one string.
RECURSIVE Text(_)
Text(chars) == IF chars = <<>> THEN "" ELSE Head(chars) \o Text(Tail(chars))

---------------------------------------------------------------------------
(* Inputs of the enrichment merger.                                         *)

\* Products as the API returns them; an attribute may be missing.
ApiProduct_Full ==
    [id |-> Num(1), title |-> Str("Mascara"), category |-> Str("beauty"),
     brand |-> Str("Essence"), price |-> Num(10), rating |-> Num(5)]

ApiProduct_SameId ==
    [id |-> Num(1), title |-> Str("Perfume"), category |-> Str("fragrances"),
     brand |-> Str("Dior"), price |-> Num(90), rating |-> Num(0)]

ApiProduct_NoBrand ==
    [id |-> Num(2), title |-> Str("Apple"), category |-> Str("groceries"),
     price |-> Num(2), rating |-> Num(4)]

ApiProduct_NoId ==
    [title |-> Str("Ghost"), category |-> Str("misc"), brand |-> Str("Nobody"),
     price |-> Num(1), rating |-> Num(1)]

SampleApiProducts ==
    {ApiProduct_Full, ApiProduct_SameId, ApiProduct_NoBrand, ApiProduct_NoId}

\* What the HTTP request can come to: a transport or status failure
\* (requests.exceptions.RequestException), or a JSON body.
HttpOutcomes ==
    {[kind |-> "RequestException"]}
      \cup {[kind |-> "ok", data |-> [total |-> Num(0)]]}
      \cup {[kind |-> "ok", data |-> [products |-> ps]] :
                ps \in SeqsUpTo(SampleApiProducts, MaxProducts)}

\* Transactions as the parser hands them on (dicts): product ids
\* <letter><digits> and product ids without an extractable number; regions,
\* dates, customers and products that repeat.
Pid_P1 == <<"P", "1">>

Pid_P2 == <<"P", "2">>

Pid_P3 == <<"P", "3">>

Pid_P01 == <<"P", "0", "1">>

Pid_PX == <<"P", "X">>

Pid_P == <<"P">>

Pid_Empty == <<>>

Transaction(id, date, product_id, product_name, quantity, unit_price, customer_id, region) ==
    [TransactionID |-> id, Date |-> date, ProductID |-> product_id,
     ProductName |-> product_name, Quantity |-> quantity,
     UnitPrice |-> unit_price, CustomerID |-> customer_id, Region |-> region]

SampleTransactions ==
    {Transaction("T001", "2024-01-05", Pid_P1, "Mascara", 2, 500, "C001", "North"),
     Transaction("T002", "2024-01-06", Pid_P2, "Apple", 1, 30, "C002", "South"),
     Transaction("T003", "2024-01-06", Pid_P3, "Lamp", 4, 10, "C001", "North"),
     Transaction("T004", "2024-01-07", Pid_P01, "Mascara", 1, 500, "C003", "East"),
     Transaction("T005", "2024-01-07", Pid_PX, "Pen", 3, 5, "C002", "South"),
     Transaction("T006", "2024-01-08", Pid_P, "Ink", 1, 7, "C003", "East"),
     Transaction("T007", "2024-01-08", Pid_Empty, "Cap", 5, 2, "C001", "West")}

---------------------------------------------------------------------------
(* utils/api_handler.py                                                     *)

\* api_handler.py:18-27: every product reduced to the six attributes, a
\* missing one None.
ProductRecord(p) ==
    [id |-> Get(p, "id"), title |-> Get(p, "title"),
     category |-> Get(p, "category"), brand |-> Get(p, "brand"),
     price |-> Get(p, "price"), rating |-> Get(p, "rating")]

\* api_handler.py:4-34: the products of the response; a failed request is
\* caught and gives the empty list.
fetch_all_products(response) ==
    IF response.kind = "RequestException"
    THEN <<>>
    ELSE LET products == IF "products" \in DOMAIN response.data
                         THEN response.data.products
                         ELSE <<>>
         IN  [i \in 1..Len(products) |-> ProductRecord(products[i])]

\* api_handler.py:37-55: id -> product info, products without an id left
\* out, a later product replacing an earlier one of the same id.
create_product_mapping(products) ==
    LET ids == {products[i].id : i \in {j \in 1..Len(products) : products[j].id # None}}
        last(id) == CHOOSE i \in 1..Len(products) :
                        /\ products[i].id = id
                        /\ \A j \in (i + 1)..Len(products) : products[j].id # id
    IN  [id \in ids |->
            [title    |-> products[last(id)].title,
             category |-> products[last(id)].category,
             brand    |-> products[last(id)].brand,
             rating   |-> products[last(id)].rating]]

\* An extraction that catches the IndexError only.
ExtractionCaught_IndexErrorOnly == {"IndexError"}

\* api_handler.py:71: the exceptions the extraction of the number catches.
ExtractionCaught == {"ValueError", "IndexError"}

\* api_handler.py:68-72: int(tx['ProductID'][1:]); a caught exception gives
\* None, any other propagates.
ProductIdNum(product_id) ==
    LET parsed == PyInt(SubSeq(product_id, 2, Len(product_id)))
        raised == IF parsed.ok THEN "none" ELSE "ValueError"
    IN  IF raised = "none" THEN [raised |-> "none", value |-> Num(parsed.value)]
        ELSE IF raised \in ExtractionCaught THEN [raised |-> "none", value |-> None]
        ELSE [raised |-> raised, value |-> None]

\* An enrichment that reports a match for every product id with a number.
EnrichTransaction_MatchWithoutLookup(tx, mapping) ==
    LET key == ProductIdNum(tx.ProductID).value
        api == IF key # None /\ key \in DOMAIN mapping
               THEN [API_Category |-> mapping[key].category,
                     API_Brand    |-> mapping[key].brand,
                     API_Rating   |-> mapping[key].rating,
                     API_Match    |-> TRUE]
               ELSE [API_Category |-> None, API_Brand |-> None,
                     API_Rating |-> None, API_Match |-> key # None]
    IN  [tx |-> tx, enriched_tx |-> api @@ tx]

\* An enrichment that writes the API fields into the transaction itself
\* (no copy).
EnrichTransaction_InPlace(tx, mapping) ==
    LET key == ProductIdNum(tx.ProductID).value
        api == IF key \in DOMAIN mapping
               THEN [API_Category |-> mapping[key].category,
                     API_Brand    |-> mapping[key].brand,
                     API_Rating   |-> mapping[key].rating,
                     API_Match    |-> TRUE]
               ELSE [API_Category |-> None, API_Brand |-> None,
                     API_Rating |-> None, API_Match |-> FALSE]
    IN  [tx |-> api @@ tx, enriched_tx |-> api @@ tx]

\* api_handler.py:66-87: one iteration of the loop over a transaction that
\* raised nothing: the transaction as the iteration leaves it, and the
\* enriched copy. product_mapping.get gives None for a missing key, and a
\* mapped product is a non-empty dict, hence true.
EnrichTransaction(tx, mapping) ==
    LET key == ProductIdNum(tx.ProductID).value
        api == IF key \in DOMAIN mapping
               THEN [API_Category |-> mapping[key].category,
                     API_Brand    |-> mapping[key].brand,
                     API_Rating   |-> mapping[key].rating,
                     API_Match    |-> TRUE]
               ELSE [API_Category |-> None, API_Brand |-> None,
                     API_Rating |-> None, API_Match |-> FALSE]
    IN  [tx |-> tx, enriched_tx |-> api @@ tx]

\* 'Truthiness' of a value of the API: None, 0 and '' are false.
Truthy(v) == v \notin {None, Num(0), Str("")}

\* str(value or ''): the text of an API value, '' for a false one.
ApiText(v) ==
    IF ~Truthy(v) THEN ""
    ELSE IF v[1] = "num" THEN ToString(v[2]) ELSE v[2]

\* '|'.join(row)
RECURSIVE Join(_)
Join(cells) ==
    IF cells = <<>> THEN ""
    ELSE IF Len(cells) = 1 THEN cells[1]
    ELSE cells[1] \o "|" \o Join(Tail(cells))

\* api_handler.py:103-107
EnrichedHeaders ==
    <<"TransactionID", "Date", "ProductID", "ProductName", "Quantity",
      "UnitPrice", "CustomerID", "Region", "API_Category", "API_Brand",
      "API_Rating", "API_Match">>

\* api_handler.py:113-128: the line written for an enriched transaction;
\* str() leaves a string as it is and writes an integer in decimal.
EnrichedRow(tx) ==
    Join(<<tx.TransactionID, tx.Date, Text(tx.ProductID), tx.ProductName,
           ToString(tx.Quantity), ToString(tx.UnitPrice),
           tx.CustomerID, tx.Region,
           ApiText(tx.API_Category), ApiText(tx.API_Brand),
           ApiText(tx.API_Rating),
           IF tx.API_Match THEN "True" ELSE "False">>)

\* api_handler.py:109-128: the lines of the enriched output file.
EnrichedFileLines(enriched) ==
    <<Join(EnrichedHeaders)>> \o [i \in 1..Len(enriched) |-> EnrichedRow(enriched[i])]

\* main.py:334 (step 6): fetch_all_products().
FetchProducts ==
    /\ enrich_pc = "fetch"
    /\ api_products' = fetch_all_products(http)
    /\ enrich_pc' = "map"
    /\ UNCHANGED <<http, product_mapping, transactions, tx_index,
                   enriched_transactions, enriched_file, enrich_exc>>
    /\ UNCHANGED notEnrichVars

\* main.py:341 (step 7): create_product_mapping(api_products).
CreateProductMapping ==
    /\ enrich_pc = "map"
    /\ product_mapping' = create_product_mapping(api_products)
    /\ enrich_pc' = "enrich"
    /\ UNCHANGED <<http, api_products, transactions, tx_index,
                   enriched_transactions, enriched_file, enrich_exc>>
    /\ UNCHANGED notEnrichVars

\* api_handler.py:65-87: one iteration of enrich_sales_data's loop.
EnrichNext ==
    /\ enrich_pc = "enrich"
    /\ tx_index < Len(transactions)
    /\ LET tx        == transactions[tx_index + 1]
           extracted == ProductIdNum(tx.ProductID)
           done      == EnrichTransaction(tx, product_mapping)
       IN  IF extracted.raised # "none"
           THEN /\ enrich_pc' = "raised"
                /\ enrich_exc' = extracted.raised
                /\ UNCHANGED <<transactions, tx_index, enriched_transactions>>
           ELSE /\ transactions' = [transactions EXCEPT ![tx_index + 1] = done.tx]
                /\ enriched_transactions' = Append(enriched_transactions, done.enriched_tx)
                /\ tx_index' = tx_index + 1
                /\ UNCHANGED <<enrich_pc, enrich_exc>>
    /\ UNCHANGED <<http, api_products, product_mapping, enriched_file>>
    /\ UNCHANGED notEnrichVars

\* api_handler.py:89-92, 95-130: the enriched transactions are written to
\* the output file and returned.
SaveEnrichedData ==
    /\ enrich_pc = "enrich"
    /\ tx_index = Len(transactions)
    /\ enriched_file' = EnrichedFileLines(enriched_transactions)
    /\ enrich_pc' = "returned"
    /\ UNCHANGED <<http, api_products, product_mapping, transactions, tx_index,
                   enriched_transactions, enrich_exc>>
    /\ UNCHANGED notEnrichVars

\* api_handler.py:101-128: the file system fails (os.makedirs, open or a
\* write raises OSError); the lines written before the failure stay in the
\* file, and the error leaves enrich_sales_data.
SaveEnrichedDataFails ==
    /\ enrich_pc = "enrich"
    /\ tx_index = Len(transactions)
    /\ \E written \in 0..Len(enriched_transactions) :
          enriched_file' = SubSeq(EnrichedFileLines(enriched_transactions), 1, written)
    /\ enrich_pc' = "raised"
    /\ enrich_exc' = "OSError"
    /\ UNCHANGED <<http, api_products, product_mapping, transactions, tx_index,
                   enriched_transactions>>
    /\ UNCHANGED notEnrichVars

\* main.py:344 and main.py:184: the transactions with a match.
EnrichedCount(enriched) ==
    Cardinality({i \in 1..Len(enriched) : enriched[i].API_Match})

\* main.py:345 and main.py:191: the success rate in hundredths of a percent,
\* as the report prints it (two decimals, rounded); 0 for no transactions.
SuccessRate(enriched) ==
    IF Len(enriched) > 0
    THEN (2 * 10000 * EnrichedCount(enriched) + Len(enriched)) \div (2 * Len(enriched))
    ELSE 0

EnrichInit ==
    /\ enrich_pc = "fetch"
    /\ http \in HttpOutcomes
    /\ transactions \in SeqsUpTo(SampleTransactions, MaxTx)
    /\ api_products = <<>>
    /\ product_mapping = <<>>
    /\ tx_index = 0
    /\ enriched_transactions = <<>>
    /\ enriched_file = <<>>
    /\ enrich_exc = "none"

EnrichStep ==
    \/ FetchProducts
    \/ CreateProductMapping
    \/ EnrichNext
    \/ SaveEnrichedData
    \/ SaveEnrichedDataFails

---------------------------------------------------------------------------
(* Python lists, dicts and sorting, as main.py and data_processor.py use    *)
(* them.                                                                    *)

\* sum() of a list of numbers.
RECURSIVE sum(_)
sum(numbers) ==
    IF numbers = <<>> THEN 0 ELSE Head(numbers) + sum(Tail(numbers))

\* main.py:102, 113, 131, 146, 163: tx['Quantity'] * tx['UnitPrice']
Amount(tx) == tx.Quantity * tx.UnitPrice

\* The keys of a defaultdict in the order the loop first touched them.
RECURSIVE FirstSeen(_)
FirstSeen(keys) ==
    IF keys = <<>> THEN <<>>
    ELSE <<Head(keys)>> \o SelectSeq(FirstSeen(Tail(keys)), LAMBDA k : k # Head(keys))

\* The transactions a defaultdict entry accumulates: those with the key.
Under(txs, field, key) == SelectSeq(txs, LAMBDA tx : tx[field] = key)

Amounts(txs) == [i \in 1..Len(txs) |-> Amount(txs[i])]

Quantities(txs) == [i \in 1..Len(txs) |-> txs[i].Quantity]

\* A quotient as the report prints it with two decimals: in hundredths,
\* rounded to the nearest.
Hundredths(numerator, denominator) ==
    (2 * 100 * numerator + denominator) \div (2 * denominator)

\* sorted(..., reverse=True) and list.sort(reverse=True) over <<key, item>>
\* pairs: descending keys, equal keys in their original order.
RECURSIVE SortedReverse(_)
SortedReverse(pairs) ==
    IF pairs = <<>> THEN <<>>
    ELSE LET h    == Head(pairs)
             rest == SortedReverse(Tail(pairs))
         IN  SelectSeq(rest, LAMBDA p : p[1] > h[1]) \o <<h>>
               \o SelectSeq(rest, LAMBDA p : p[1] <= h[1])

Items(pairs) == [i \in 1..Len(pairs) |-> pairs[i][2]]

\* sorted(...) and list.sort() over <<key, item>> pairs: ascending keys,
\* equal keys in their original order.
RECURSIVE Sorted(_)
Sorted(pairs) ==
    IF pairs = <<>> THEN <<>>
    ELSE LET h    == Head(pairs)
             rest == Sorted(Tail(pairs))
         IN  SelectSeq(rest, LAMBDA p : p[1] < h[1]) \o <<h>>
               \o SelectSeq(rest, LAMBDA p : p[1] >= h[1])

\* seq[:n]
Take(seq, n) == SubSeq(seq, 1, IF Len(seq) < n THEN Len(seq) ELSE n)

\* The dates and product names of the sample transactions in the order
\* Python gives str values (by code point).
TextOrder ==
    <<"2024-01-05", "2024-01-06", "2024-01-07", "2024-01-08",
      "Apple", "Cap", "Ink", "Lamp", "Mascara", "Pen">>

\* sorted() of a set of str values.
SortedTexts(texts) == SelectSeq(TextOrder, LAMBDA t : t \in texts)

---------------------------------------------------------------------------
(* utils/data_processor.py                                                  *)

\* What a call comes to: not made yet, a value returned, an exception raised.
Uncalled == [state |-> "uncalled"]

Returned(value) == [state |-> "returned", value |-> value]

Raised(exception) == [state |-> "raised", exception |-> exception]

\* The names bound in the module data_processor: its seven functions. The
\* file imports nothing, so defaultdict and datetime are not among them.
DataProcessorGlobals ==
    {"calculate_total_revenue", "region_wise_sales", "top_selling_products",
     "customer_analysis", "daily_sales_trend", "find_peak_sales_day",
     "low_performing_products"}

\* data_processor.py:8-9, 27: Quantity * UnitPrice of a transaction.
Revenue(tx) == tx.Quantity * tx.UnitPrice

\* data_processor.py:6-9, 26-28: the revenues of the transactions added up
\* in the order of the list.
RECURSIVE RevenueSum(_)
RevenueSum(txs) ==
    IF txs = <<>> THEN 0 ELSE Revenue(Head(txs)) + RevenueSum(Tail(txs))

\* data_processor.py:1-11: the revenues summed from 0.0 and rounded to two
\* decimals (whole numbers, which the rounding leaves as they are).
calculate_total_revenue(txs) == Returned(RevenueSum(txs))

\* data_processor.py:14-44: the lookup of defaultdict on line 19 raises
\* NameError; were the name bound, the function would build `result` and end
\* after the comment of line 44 without a return statement, returning None.
region_wise_sales(txs) ==
    IF "defaultdict" \notin DataProcessorGlobals
    THEN Raised("NameError")
    ELSE Returned(None)

\* main.py:321: total_revenue = calculate_total_revenue(valid_transactions)
CalculateTotalRevenue ==
    /\ agg_pc = "ready"
    /\ total_revenue = Uncalled
    /\ total_revenue' = calculate_total_revenue(transactions)
    /\ UNCHANGED <<agg_pc, region_sales, top_products, peak_day, low_products>>
    /\ UNCHANGED notAggVars

\* main.py:322: region_sales = region_wise_sales(valid_transactions)
RegionWiseSales ==
    /\ agg_pc = "ready"
    /\ region_sales = Uncalled
    /\ region_sales' = region_wise_sales(transactions)
    /\ UNCHANGED <<agg_pc, total_revenue, top_products, peak_day, low_products>>
    /\ UNCHANGED notAggVars

\* data_processor.py:118-146: daily_sales_trend. The lookup of defaultdict
\* on line 123 raises NameError (as would the lookup of datetime on line
\* 139, in the sort key of the first date). Were the names bound: per date,
\* in the order of the dates (all of the form %Y-%m-%d, for which the order
\* of strptime is the order of the text), the revenue, the number of
\* transactions and the number of distinct customers.
daily_sales_trend(txs) ==
    IF \/ "defaultdict" \notin DataProcessorGlobals
       \/ ("datetime" \notin DataProcessorGlobals /\ txs # <<>>)
    THEN Raised("NameError")
    ELSE LET dates == SortedTexts({txs[i].Date : i \in 1..Len(txs)})
         IN  Returned([i \in 1..Len(dates) |->
                 LET of == Under(txs, "Date", dates[i])
                 IN  [date |-> dates[i],
                      revenue |-> RevenueSum(of),
                      transaction_count |-> Len(of),
                      unique_customers |->
                          Cardinality({of[k].CustomerID : k \in 1..Len(of)})]])

\* data_processor.py:160-164: the loop of find_peak_sales_day over the days
\* from position i on, which replaces the peak by a day of strictly greater
\* revenue.
RECURSIVE PeakFrom(_, _, _)
PeakFrom(days, i, peak) ==
    IF i > Len(days) THEN peak
    ELSE PeakFrom(days, i + 1,
                  IF days[i].revenue > peak[2]
                  THEN <<Str(days[i].date), days[i].revenue, days[i].transaction_count>>
                  ELSE peak)

\* data_processor.py:149-166: find_peak_sales_day. The exception of
\* daily_sales_trend leaves the function; otherwise the result is
\* (peak_date, peak_revenue, peak_tx_count), from (None, 0.0, 0).
find_peak_sales_day(txs) ==
    LET daily_summary == daily_sales_trend(txs)
    IN  IF daily_summary.state = "raised" THEN daily_summary
        ELSE Returned(PeakFrom(daily_summary.value, 1, <<None, 0, 0>>))

\* data_processor.py:52-68 and 174-187: product_data.items() as tuples
\* (product, quantity, revenue), in the order the products were first seen.
ProductList(txs) ==
    LET products == FirstSeen([i \in 1..Len(txs) |-> txs[i].ProductName])
    IN  [i \in 1..Len(products) |->
            <<products[i],
              sum(Quantities(Under(txs, "ProductName", products[i]))),
              RevenueSum(Under(txs, "ProductName", products[i]))>>]

\* data_processor.py:47-73: top_selling_products. The lookup of defaultdict
\* on line 52 raises NameError. Were the name bound: the product list sorted
\* by quantity, descending, and its first n entries.
top_selling_products(txs, n) ==
    IF "defaultdict" \notin DataProcessorGlobals
    THEN Raised("NameError")
    ELSE LET product_list == ProductList(txs)
         IN  Returned(Take(Items(SortedReverse(
                 [i \in 1..Len(product_list) |->
                     <<product_list[i][2], product_list[i]>>])), n))

\* data_processor.py:169-196: low_performing_products. The lookup of
\* defaultdict on line 174 raises NameError. Were the name bound: the
\* products of a quantity below the threshold, sorted by quantity,
\* ascending.
low_performing_products(txs, threshold) ==
    IF "defaultdict" \notin DataProcessorGlobals
    THEN Raised("NameError")
    ELSE LET low == SelectSeq(ProductList(txs), LAMBDA t : t[2] < threshold)
         IN  Returned(Items(Sorted([i \in 1..Len(low) |-> <<low[i][2], low[i]>>])))

\* main.py:323: top_products = top_selling_products(valid_transactions),
\* with the default n=5 (data_processor.py:47).
TopSellingProducts ==
    /\ agg_pc = "ready"
    /\ top_products = Uncalled
    /\ top_products' = top_selling_products(transactions, 5)
    /\ UNCHANGED <<agg_pc, total_revenue, region_sales, peak_day, low_products>>
    /\ UNCHANGED notAggVars

\* main.py:327: low_products = low_performing_products(valid_transactions),
\* with the default threshold=10 (data_processor.py:169).
LowPerformingProducts ==
    /\ agg_pc = "ready"
    /\ low_products = Uncalled
    /\ low_products' = low_performing_products(transactions, 10)
    /\ UNCHANGED <<agg_pc, total_revenue, region_sales, top_products, peak_day>>
    /\ UNCHANGED notAggVars

\* main.py:326: peak_day = find_peak_sales_day(valid_transactions)
FindPeakSalesDay ==
    /\ agg_pc = "ready"
    /\ peak_day = Uncalled
    /\ peak_day' = find_peak_sales_day(transactions)
    /\ UNCHANGED <<agg_pc, total_revenue, region_sales, top_products, low_products>>
    /\ UNCHANGED notAggVars

AggIdle ==
    /\ agg_pc = "idle"
    /\ total_revenue = Uncalled
    /\ region_sales = Uncalled
    /\ top_products = Uncalled
    /\ peak_day = Uncalled
    /\ low_products = Uncalled

AggInit ==
    /\ agg_pc = "ready"
    /\ total_revenue = Uncalled
    /\ region_sales = Uncalled
    /\ top_products = Uncalled
    /\ peak_day = Uncalled
    /\ low_products = Uncalled

AggStep ==
    \/ CalculateTotalRevenue
    \/ RegionWiseSales
    \/ TopSellingProducts
    \/ FindPeakSalesDay
    \/ LowPerformingProducts

---------------------------------------------------------------------------
(* generate_sales_report (main.py:89-254).                                  *)

\* main.py:110-124
RegionSummary(txs) ==
    LET regions == FirstSeen([i \in 1..Len(txs) |-> txs[i].Region])
        total_revenue_ == sum(Amounts(txs))
        row(region) ==
            LET sales == sum(Amounts(Under(txs, "Region", region)))
            IN  <<sales,
                  [region |-> region, sales |-> sales,
                   pct |-> IF total_revenue_ # 0
                           THEN Hundredths(100 * sales, total_revenue_) ELSE 0,
                   count |-> Len(Under(txs, "Region", region))]>>
    IN  Items(SortedReverse([i \in 1..Len(regions) |-> row(regions[i])]))

\* main.py:129-133: product_data.items()
ProductData(txs) ==
    LET products == FirstSeen([i \in 1..Len(txs) |-> txs[i].ProductName])
    IN  [i \in 1..Len(products) |->
            [product |-> products[i],
             qty |-> sum(Quantities(Under(txs, "ProductName", products[i]))),
             rev |-> sum(Amounts(Under(txs, "ProductName", products[i])))]]

\* main.py:135-139
TopProducts(txs) ==
    LET items == ProductData(txs)
    IN  Take(Items(SortedReverse([i \in 1..Len(items) |-> <<items[i].qty, items[i]>>])), 5)

\* main.py:144-154
TopCustomers(txs) ==
    LET customers == FirstSeen([i \in 1..Len(txs) |-> txs[i].CustomerID])
        row(customer) ==
            LET spent == sum(Amounts(Under(txs, "CustomerID", customer)))
            IN  <<spent, [customer |-> customer, spent |-> spent,
                          count |-> Len(Under(txs, "CustomerID", customer))]>>
    IN  Take(Items(SortedReverse([i \in 1..Len(customers) |-> row(customers[i])])), 5)

\* main.py:159-165: daily_data.items()
DailyData(txs) ==
    LET dates == FirstSeen([i \in 1..Len(txs) |-> txs[i].Date])
    IN  [i \in 1..Len(dates) |->
            LET of == Under(txs, "Date", dates[i])
            IN  [date |-> dates[i], rev |-> sum(Amounts(of)), count |-> Len(of),
                 customers |-> {of[k].CustomerID : k \in 1..Len(of)}]]

\* main.py:168: sorted(daily_data.items()), the dates being distinct.
DailySummary(txs) ==
    LET items == DailyData(txs)
        dates == SortedTexts({items[i].date : i \in 1..Len(items)})
    IN  [i \in 1..Len(dates) |->
            items[CHOOSE k \in 1..Len(items) : items[k].date = dates[i]]]

\* main.py:170: max(daily_data.items(), key=rev), the first item of the
\* greatest revenue; max() of no items raises ValueError.
PeakDay(txs) ==
    LET items == DailyData(txs)
    IN  IF items = <<>> THEN Raised("ValueError")
        ELSE Returned(items[CHOOSE k \in 1..Len(items) :
                                /\ \A j \in 1..Len(items) : items[j].rev <= items[k].rev
                                /\ \A j \in 1..(k - 1) : items[j].rev < items[k].rev])

\* main.py:175-179
LowProducts(txs) == SelectSeq(ProductData(txs), LAMBDA d : d.qty < 10)

\* main.py:185-189
FailedProducts(enriched) ==
    SortedTexts({enriched[i].ProductName :
                    i \in {k \in 1..Len(enriched) : ~enriched[k].API_Match}})

\* main.py:197-252: what the f.write calls of the eight sections of the
\* report put into the file, the values before the formatting of the
\* f-strings (amounts and rates in hundredths); the first section also holds
\* the time of the clock, which is left out.
ReportSections(txs, enriched) ==
    <<[section |-> "SALES ANALYTICS REPORT", total_records |-> Len(txs)],
      [section |-> "OVERALL SUMMARY",
       total_revenue |-> 100 * sum(Amounts(txs)),
       total_records |-> Len(txs),
       avg_order_value |-> IF Len(txs) # 0
                           THEN Hundredths(sum(Amounts(txs)), Len(txs)) ELSE 0,
       date_range |-> LET dates == SortedTexts({txs[i].Date : i \in 1..Len(txs)})
                      IN  IF dates # <<>>
                          THEN <<dates[1], dates[Len(dates)]>> ELSE <<"N/A">>],
      [section |-> "REGION-WISE PERFORMANCE", rows |-> RegionSummary(txs)],
      [section |-> "TOP 5 PRODUCTS", rows |-> TopProducts(txs)],
      [section |-> "TOP 5 CUSTOMERS", rows |-> TopCustomers(txs)],
      [section |-> "DAILY SALES TREND", rows |-> DailySummary(txs)],
      [section |-> "PRODUCT PERFORMANCE ANALYSIS",
       peak_day |-> PeakDay(txs).value, low_products |-> LowProducts(txs)],
      [section |-> "API ENRICHMENT SUMMARY",
       enriched_count |-> EnrichedCount(enriched),
       success_rate |-> SuccessRate(enriched),
       failed_products |-> FailedProducts(enriched)]>>

\* main.py:94: os.makedirs(..., exist_ok=True)
ReportMakedirs ==
    /\ report_pc = "makedirs"
    /\ report_pc' = "compute"
    /\ UNCHANGED <<report_sections, report_file, report_exc>>
    /\ UNCHANGED notReportVars

\* main.py:94: the directory cannot be made.
ReportMakedirsFails ==
    /\ report_pc = "makedirs"
    /\ report_pc' = "raised"
    /\ report_exc' = "OSError"
    /\ UNCHANGED <<report_sections, report_file>>
    /\ UNCHANGED notReportVars

\* main.py:96-191: every value of the report is computed before the file is
\* opened; max() on line 170 raises ValueError for no transactions.
ReportCompute ==
    /\ report_pc = "compute"
    /\ IF PeakDay(transactions).state = "raised"
       THEN /\ report_pc' = "raised"
            /\ report_exc' = PeakDay(transactions).exception
            /\ UNCHANGED report_sections
       ELSE /\ report_pc' = "open"
            /\ report_sections' = ReportSections(transactions, enriched_transactions)
            /\ UNCHANGED report_exc
    /\ UNCHANGED report_file
    /\ UNCHANGED notReportVars

\* main.py:196: open(output_file, 'w') makes the file, empty.
ReportOpen ==
    /\ report_pc = "open"
    /\ report_pc' = "write"
    /\ report_file' = [exists |-> TRUE, sections |-> <<>>]
    /\ UNCHANGED <<report_sections, report_exc>>
    /\ UNCHANGED notReportVars

\* main.py:196: open raises OSError.
ReportOpenFails ==
    /\ report_pc = "open"
    /\ report_pc' = "raised"
    /\ report_exc' = "OSError"
    /\ UNCHANGED <<report_sections, report_file>>
    /\ UNCHANGED notReportVars

\* main.py:197-252: the f.write calls of the next section.
ReportWriteSection ==
    /\ report_pc = "write"
    /\ Len(report_file.sections) < Len(report_sections)
    /\ report_file' =
           [report_file EXCEPT
               !.sections = Append(@, report_sections[Len(report_file.sections) + 1])]
    /\ UNCHANGED <<report_pc, report_sections, report_exc>>
    /\ UNCHANGED notReportVars

\* main.py:196-252: an f.write (or the flush of what was written, when the
\* with statement closes the file) raises OSError; the with statement closes
\* the file with the sections written so far and the error leaves the
\* function.
ReportWriteFails ==
    /\ report_pc = "write"
    /\ report_pc' = "raised"
    /\ report_exc' = "OSError"
    /\ UNCHANGED <<report_sections, report_file>>
    /\ UNCHANGED notReportVars

\* main.py:252-254: the file is closed after the last write and the path is
\* printed.
ReportClose ==
    /\ report_pc = "write"
    /\ Len(report_file.sections) = Len(report_sections)
    /\ report_pc' = "returned"
    /\ UNCHANGED <<report_sections, report_file, report_exc>>
    /\ UNCHANGED notReportVars

ReportIdle ==
    /\ report_pc = "idle"
    /\ report_sections = <<>>
    /\ report_file = [exists |-> FALSE, sections |-> <<>>]
    /\ report_exc = "none"

\* main.py:358: generate_sales_report is called; no report file yet.
ReportInit ==
    /\ report_pc = "makedirs"
    /\ report_sections = <<>>
    /\ report_file = [exists |-> FALSE, sections |-> <<>>]
    /\ report_exc = "none"

ReportStep ==
    \/ ReportMakedirs
    \/ ReportMakedirsFails
    \/ ReportCompute
    \/ ReportOpen
    \/ ReportOpenFails
    \/ ReportWriteSection
    \/ ReportWriteFails
    \/ ReportClose

---------------------------------------------------------------------------
(* main (main.py:256-371), the pipeline run.                                *)

\* The names bound in the module main when main() runs: its imports
\* (main.py:1-7) and its three functions. validate_and_filter is not among
\* them.
MainGlobals ==
    {"datetime", "defaultdict", "os",
     "fetch_all_products", "create_product_mapping", "enrich_sales_data",
     "calculate_total_revenue", "region_wise_sales", "top_selling_products",
     "customer_analysis", "daily_sales_trend", "find_peak_sales_day",
     "low_performing_products", "read_sales_data", "parse_transactions",
     "clean_sales_data", "generate_sales_report", "main"}

\* An outer handler that catches ValueError only.
Exception_ValueErrorOnly == {"ValueError"}

\* main.py:368: `except Exception` catches the classes derived from
\* Exception; every exception raised in the try block is one.
Exception ==
    {"OSError", "FileNotFoundError", "ValueError", "NameError", "EOFError"}

\* utils.file_handler.read_sales_data: the lines of the file at the path;
\* a file that cannot be read is a filesystem error.
read_sales_data(stored) ==
    IF stored.exists THEN Returned(stored.lines) ELSE Raised("FileNotFoundError")

\* utils.file_handler.parse_transactions, one line: trimmed; a blank line
\* and a malformed one give nothing; a well-formed one gives its
\* transaction, the product name without commas and the numbers as integers.
ParsedLine(line) ==
    LET parts == split(strip(line), "|")
    IN  IF strip(line) = <<>> THEN <<>>
        ELSE IF Len(parts) # 8 THEN <<>>
        ELSE IF ~startswith(parts[1], "T") THEN <<>>
        ELSE IF strip(parts[7]) = <<>> \/ strip(parts[8]) = <<>> THEN <<>>
        ELSE IF ~PyInt(replace(parts[5], ",")).ok \/ ~PyInt(replace(parts[6], ",")).ok
             THEN <<>>
        ELSE IF PyInt(replace(parts[5], ",")).value <= 0
                  \/ PyInt(replace(parts[6], ",")).value <= 0
             THEN <<>>
        ELSE <<[TransactionID |-> parts[1], Date |-> parts[2], ProductID |-> parts[3],
                ProductName |-> replace(parts[4], ","),
                Quantity |-> PyInt(replace(parts[5], ",")).value,
                UnitPrice |-> PyInt(replace(parts[6], ",")).value,
                CustomerID |-> parts[7], Region |-> parts[8]]>>

RECURSIVE ParsedLines(_)
ParsedLines(lines) ==
    IF lines = <<>> THEN <<>> ELSE ParsedLine(Head(lines)) \o ParsedLines(Tail(lines))

\* utils.file_handler.parse_transactions: the header line discarded, the
\* transactions of the well-formed lines in their order.
parse_transactions(lines) ==
    IF lines = <<>> THEN <<>> ELSE ParsedLines(Tail(lines))

\* str.lower() over the letters of the answers.
lower(s) ==
    [i \in 1..Len(s) |-> CASE s[i] = "Y" -> "y" [] s[i] = "N" -> "n" [] OTHER -> s[i]]

\* float(text) for decimal literals: surrounding whitespace ignored, an
\* optional sign, digits with at most one point and at least one digit;
\* anything else among the answers raises ValueError (ok = FALSE). The value
\* is in hundredths, further decimals dropped.
PyFloat(text) ==
    LET t      == strip(text)
        signed == Len(t) > 0 /\ t[1] \in {"+", "-"}
        body   == IF signed THEN Tail(t) ELSE t
        pieces == split(body, ".")
        whole  == pieces[1]
        frac   == IF Len(pieces) = 2 THEN pieces[2] ELSE <<>>
        wellFormed ==
            /\ Len(pieces) <= 2
            /\ Len(whole) + Len(frac) > 0
            /\ \A i \in 1..Len(whole) : whole[i] \in Digits
            /\ \A i \in 1..Len(frac) : frac[i] \in Digits
        cents  == SubSeq(frac \o <<"0", "0">>, 1, 2)
    IN  IF wellFormed
        THEN [ok |-> TRUE,
              value |-> (IF signed /\ t[1] = "-" THEN -1 ELSE 1)
                          * (100 * DigitsValue(whole, 0) + DigitsValue(cents, 0))]
        ELSE [ok |-> FALSE, value |-> 0]

\* What the user types at the prompts of main.py:290, 297-299.
ApplyFilterAnswers == {<<"y">>, <<" ", "Y", "\n">>, <<"n">>, <<>>}

RegionAnswers == {<<>>, <<"N", "o", "r", "t", "h">>}

AmountAnswers == {<<>>, <<"9", "9", ".", "5">>, <<"a", "b", "c">>}

\* main.py:292-294
NoFilter == [region_filter |-> None, min_amount |-> None, max_amount |-> None]

\* main.py:269-271 (step 1): read_sales_data("data/sales_data.txt")
MainReadSalesData ==
    /\ main_pc = "read"
    /\ LET read == read_sales_data(sales_data)
       IN  IF read.state = "raised"
           THEN /\ main_pc' = "except"
                /\ main_exc' = read.exception
                /\ UNCHANGED raw_lines
           ELSE /\ main_pc' = "parse"
                /\ raw_lines' = read.value
                /\ UNCHANGED main_exc
    /\ UNCHANGED <<sales_data, parsed_transactions, filter_criteria, failure_messages>>
    /\ UNCHANGED notMainVars

\* main.py:276-278 (step 2): parse_transactions(raw_lines)
MainParseTransactions ==
    /\ main_pc = "parse"
    /\ parsed_transactions' = parse_transactions(raw_lines)
    /\ main_pc' = "options"
    /\ UNCHANGED <<sales_data, raw_lines, filter_criteria, main_exc, failure_messages>>
    /\ UNCHANGED notMainVars

\* main.py:283-288 (step 3): the regions and the range of the amounts are
\* printed; min() of no amounts raises ValueError.
MainShowFilterOptions ==
    /\ main_pc = "options"
    /\ IF parsed_transactions = <<>>
       THEN /\ main_pc' = "except"
            /\ main_exc' = "ValueError"
       ELSE /\ main_pc' = "ask"
            /\ UNCHANGED main_exc
    /\ UNCHANGED <<sales_data, raw_lines, parsed_transactions, filter_criteria,
                   failure_messages>>
    /\ UNCHANGED notMainVars

\* main.py:290-302: the prompts; float() of an amount that is no number
\* raises ValueError.
MainAskFilter ==
    /\ main_pc = "ask"
    /\ \E apply \in ApplyFilterAnswers, region \in RegionAnswers,
          min_answer \in AmountAnswers, max_answer \in AmountAnswers :
          LET apply_filter  == lower(strip(apply))
              region_filter == strip(region)
              min_amt       == strip(min_answer)
              max_amt       == strip(max_answer)
          IN  IF apply_filter # <<"y">>
              THEN /\ filter_criteria' = NoFilter
                   /\ main_pc' = "validate"
                   /\ UNCHANGED main_exc
              ELSE IF \/ (min_amt # <<>> /\ ~PyFloat(min_amt).ok)
                      \/ (max_amt # <<>> /\ ~PyFloat(max_amt).ok)
              THEN /\ main_pc' = "except"
                   /\ main_exc' = "ValueError"
                   /\ UNCHANGED filter_criteria
              ELSE /\ filter_criteria' =
                          [region_filter |-> <<"str", region_filter>>,
                           min_amount |-> IF min_amt # <<>>
                                          THEN Num(PyFloat(min_amt).value) ELSE None,
                           max_amount |-> IF max_amt # <<>>
                                          THEN Num(PyFloat(max_amt).value) ELSE None]
                   /\ main_pc' = "validate"
                   /\ UNCHANGED main_exc
    /\ UNCHANGED <<sales_data, raw_lines, parsed_transactions, failure_messages>>
    /\ UNCHANGED notMainVars

\* main.py:290, 297-299: input() at the end of the standard input raises
\* EOFError.
MainInputEnds ==
    /\ main_pc = "ask"
    /\ main_pc' = "except"
    /\ main_exc' = "EOFError"
    /\ UNCHANGED <<sales_data, raw_lines, parsed_transactions, filter_criteria,
                   failure_messages>>
    /\ UNCHANGED notMainVars

\* main.py:307-313 (step 4): the name validate_and_filter is looked up and
\* is not bound: NameError. Steps 5 to 10 (main.py:315-366) are never run.
MainValidateAndFilter ==
    /\ main_pc = "validate"
    /\ "validate_and_filter" \notin MainGlobals
    /\ main_pc' = "except"
    /\ main_exc' = "NameError"
    /\ UNCHANGED <<sales_data, raw_lines, parsed_transactions, filter_criteria,
                   failure_messages>>
    /\ UNCHANGED notMainVars

\* main.py:368-371: the handler prints the failure message and main returns;
\* an exception the handler does not catch leaves main and ends the process
\* with a traceback.
MainExcept ==
    /\ main_pc = "except"
    /\ IF main_exc \in Exception
       THEN /\ failure_messages' = failure_messages + 1
            /\ main_pc' = "returned"
       ELSE /\ main_pc' = "crashed"
            /\ UNCHANGED failure_messages
    /\ UNCHANGED <<sales_data, raw_lines, parsed_transactions, filter_criteria, main_exc>>
    /\ UNCHANGED notMainVars

MainIdle ==
    /\ main_pc = "idle"
    /\ sales_data = [exists |-> FALSE, lines |-> <<>>]
    /\ raw_lines = <<>>
    /\ parsed_transactions = <<>>
    /\ filter_criteria = NoFilter
    /\ main_exc = "none"
    /\ failure_messages = 0

\* main() is called: data/sales_data.txt is missing or holds an input file.
MainInit ==
    /\ main_pc = "read"
    /\ sales_data \in {[exists |-> FALSE, lines |-> <<>>]}
                        \cup {[exists |-> TRUE, lines |-> f] : f \in InputFiles}
    /\ raw_lines = <<>>
    /\ parsed_transactions = <<>>
    /\ filter_criteria = NoFilter
    /\ main_exc = "none"
    /\ failure_messages = 0

MainStep ==
    \/ MainReadSalesData
    \/ MainParseTransactions
    \/ MainShowFilterOptions
    \/ MainAskFilter
    \/ MainInputEnds
    \/ MainValidateAndFilter
    \/ MainExcept

---------------------------------------------------------------------------
(* The filter engine: validate_and_filter, which main.py:308 calls. Its     *)
(* code is not in this source tree; it is modelled from the contract of the *)
(* specification (section 4.2).                                             *)

\* The amount of a transaction in hundredths, the unit of the amounts typed
\* at the prompts (PyFloat).
LineTotal(tx) == 100 * tx.Quantity * tx.UnitPrice

\* A filter whose bounds are exclusive.
Keeps_ExclusiveBounds(tx, region, min_amount, max_amount) ==
    /\ (region # None => Str(tx.Region) = region)
    /\ (min_amount # None => LineTotal(tx) > min_amount[2])
    /\ (max_amount # None => LineTotal(tx) < max_amount[2])

\* Section 4.2: the constraints that are present, combined with AND: the
\* region matched exactly, the amount within the inclusive bounds.
Keeps(tx, region, min_amount, max_amount) ==
    /\ (region # None => Str(tx.Region) = region)
    /\ (min_amount # None => LineTotal(tx) >= min_amount[2])
    /\ (max_amount # None => LineTotal(tx) <= max_amount[2])

\* Section 4.2: the loop over the transactions, which keeps the order.
RECURSIVE KeptOf(_, _, _, _)
KeptOf(txs, region, min_amount, max_amount) ==
    IF txs = <<>> THEN <<>>
    ELSE (IF Keeps(Head(txs), region, min_amount, max_amount)
          THEN <<Head(txs)>> ELSE <<>>)
           \o KeptOf(Tail(txs), region, min_amount, max_amount)

\* validate_and_filter(transactions, region=, min_amount=, max_amount=): the
\* transactions kept and the number of those rejected.
validate_and_filter(txs, region, min_amount, max_amount) ==
    LET kept == KeptOf(txs, region, min_amount, max_amount)
    IN  Returned([valid_transactions |-> kept,
                  invalid_count |-> Len(txs) - Len(kept)])

\* The criteria of the filter: regions that are None, empty, a region of the
\* samples and the same in lower case; bounds (in hundredths) that are None,
\* equal to an amount of the samples or between two.
RegionCriteria == {None, Str(""), Str("North"), Str("north")}

MinAmountCriteria == {None, Num(3000), Num(3500)}

MaxAmountCriteria == {None, Num(4000), Num(50000)}

\* main.py:308-313: the call of step 4, its arguments as main passes them
\* (`region_filter or None`).
ValidateAndFilter ==
    /\ filter_pc = "call"
    /\ filter_pc' = "returned"
    /\ filter_result' =
           validate_and_filter(transactions,
                               IF Truthy(criteria.region_filter)
                               THEN criteria.region_filter ELSE None,
                               criteria.min_amount, criteria.max_amount)
    /\ UNCHANGED criteria
    /\ UNCHANGED notFilterVars

FilterIdle ==
    /\ filter_pc = "idle"
    /\ criteria = NoFilter
    /\ filter_result = Uncalled

FilterInit ==
    /\ filter_pc = "call"
    /\ criteria \in [region_filter : RegionCriteria,
                     min_amount : MinAmountCriteria,
                     max_amount : MaxAmountCriteria]
    /\ filter_result = Uncalled

FilterStep ==
    \/ ValidateAndFilter

\* The enrichment merger at rest.
EnrichIdle ==
    /\ enrich_pc = "idle"
    /\ http = [kind |-> "RequestException"]
    /\ transactions = <<>>
    /\ api_products = <<>>
    /\ product_mapping = <<>>
    /\ tx_index = 0
    /\ enriched_transactions = <<>>
    /\ enriched_file = <<>>
    /\ enrich_exc = "none"

---------------------------------------------------------------------------
(* Specifications.                                                          *)

\* The record parser applied to every input file.
ParserSpecInit ==
    ParserInit /\ EnrichIdle /\ AggIdle /\ ReportIdle /\ MainIdle /\ FilterIdle

ParserSpec == ParserSpecInit /\ [][ParserNext]_vars

\* Steps 6 to 8 of the pipeline (main.py:333-353): fetch, mapping,
\* enrichment and the enriched output file, on every response of the API
\* and every transaction list.
EnrichSpecInit ==
    EnrichInit /\ ParserIdle /\ AggIdle /\ ReportIdle /\ MainIdle /\ FilterIdle

EnrichSpec == EnrichSpecInit /\ [][EnrichStep]_vars

\* Step 5 of the pipeline (main.py:320-327): the aggregation functions
\* applied to every transaction list.
AggSpecInit ==
    /\ AggInit
    /\ ParserIdle
    /\ ReportIdle
    /\ MainIdle
    /\ FilterIdle
    /\ enrich_pc = "idle"
    /\ http = [kind |-> "RequestException"]
    /\ transactions \in SeqsUpTo(SampleTransactions, MaxTx)
    /\ api_products = <<>>
    /\ product_mapping = <<>>
    /\ tx_index = 0
    /\ enriched_transactions = <<>>
    /\ enriched_file = <<>>
    /\ enrich_exc = "none"

AggSpec == AggSpecInit /\ [][AggStep]_vars

\* The enrichment has returned (api_handler.py:58-92) for some transactions
\* and a request that failed or brought one product.
Enriched ==
    /\ enrich_pc = "returned"
    /\ http \in {[kind |-> "RequestException"]}
                 \cup {[kind |-> "ok", data |-> [products |-> <<p>>]] :
                           p \in SampleApiProducts}
    /\ transactions \in SeqsUpTo(SampleTransactions, MaxTx)
    /\ api_products = fetch_all_products(http)
    /\ product_mapping = create_product_mapping(api_products)
    /\ tx_index = Len(transactions)
    /\ enriched_transactions =
           [i \in 1..Len(transactions) |->
               EnrichTransaction(transactions[i], product_mapping).enriched_tx]
    /\ enriched_file = EnrichedFileLines(enriched_transactions)
    /\ enrich_exc = "none"

\* Step 9 of the pipeline (main.py:357-359): generate_sales_report called
\* with the transactions and the enriched transactions.
ReportSpecInit ==
    ReportInit /\ Enriched /\ ParserIdle /\ AggIdle /\ MainIdle /\ FilterIdle

ReportSpec == ReportSpecInit /\ [][ReportStep]_vars

\* A run of the pipeline; the request for the products would fail
\* (EnrichIdle: RequestException).
MainSpecInit ==
    MainInit /\ ParserIdle /\ EnrichIdle /\ AggIdle /\ ReportIdle /\ FilterIdle

MainSpec == MainSpecInit /\ [][MainStep]_vars

\* Step 4 of the pipeline (main.py:308-313): the filter applied to every
\* transaction list under every combination of criteria.
FilterSpecInit ==
    /\ FilterInit
    /\ ParserIdle
    /\ AggIdle
    /\ ReportIdle
    /\ MainIdle
    /\ enrich_pc = "idle"
    /\ http = [kind |-> "RequestException"]
    /\ transactions \in SeqsUpTo(SampleTransactions, MaxTx)
    /\ api_products = <<>>
    /\ product_mapping = <<>>
    /\ tx_index = 0
    /\ enriched_transactions = <<>>
    /\ enriched_file = <<>>
    /\ enrich_exc = "none"

FilterSpec == FilterSpecInit /\ [][FilterStep]_vars


---------------------------------------------------------------------------
(* The record parser's claims (C1, C2, C3), stated on the text of the      *)
(* lines by positions, independently of split, strip and int above.        *)

Min(S) == CHOOSE x \in S : \A y \in S : x <= y

Max(S) == CHOOSE x \in S : \A y \in S : x >= y

\* The n-th smallest element of a set of numbers.
Nth(S, n) == CHOOSE x \in S : Cardinality({y \in S : y < x}) = n - 1

IsBlank(text) == \A i \in 1..Len(text) : text[i] \in Whitespace

\* The text between its first and its last character that is not whitespace.
Trimmed(text) ==
    LET solid == {i \in 1..Len(text) : text[i] \notin Whitespace}
    IN  IF solid = {} THEN <<>> ELSE SubSeq(text, Min(solid), Max(solid))

Bars(text) == {i \in 1..Len(text) : text[i] = "|"}

FieldCount(text) == Cardinality(Bars(text)) + 1

\* The n-th field of a line: the text between the bars around it.
Field(text, n) ==
    LET from == IF n = 1 THEN 0 ELSE Nth(Bars(text), n - 1)
        to   == IF n = FieldCount(text) THEN Len(text) + 1 ELSE Nth(Bars(text), n)
    IN  SubSeq(text, from + 1, to - 1)

\* The characters of a text that are no commas, in their order.
WithoutCommas(text) ==
    LET kept == {i \in 1..Len(text) : text[i] # ","}
    IN  [k \in 1..Cardinality(kept) |-> text[Nth(kept, k)]]

RECURSIVE Power10(_)
Power10(n) == IF n = 0 THEN 1 ELSE 10 * Power10(n - 1)

RECURSIVE PositionalSum(_, _)
PositionalSum(digits, i) ==
    IF i > Len(digits) THEN 0
    ELSE DigitValue(digits[i]) * Power10(Len(digits) - i) + PositionalSum(digits, i + 1)

\* A text is an integer when, between blanks, it is an optional sign and at
\* least one decimal digit.
Unsigned(text) ==
    LET t == Trimmed(text)
    IN  IF t # <<>> /\ t[1] \in {"+", "-"} THEN SubSeq(t, 2, Len(t)) ELSE t

IsInteger(text) ==
    /\ Unsigned(text) # <<>>
    /\ \A i \in 1..Len(Unsigned(text)) : Unsigned(text)[i] \in Digits

IntegerOf(text) ==
    IF Trimmed(text)[1] = "-"
    THEN 0 - PositionalSum(Unsigned(text), 1)
    ELSE PositionalSum(Unsigned(text), 1)

\* The conditions under which a line is a transaction.
WellFormedLine(raw) ==
    LET line == Trimmed(raw)
    IN  /\ FieldCount(line) = 8
        /\ Field(line, 1) # <<>> /\ Field(line, 1)[1] = "T"
        /\ ~IsBlank(Field(line, 7))
        /\ ~IsBlank(Field(line, 8))
        /\ IsInteger(WithoutCommas(Field(line, 5)))
        /\ IsInteger(WithoutCommas(Field(line, 6)))
        /\ IntegerOf(WithoutCommas(Field(line, 5))) > 0
        /\ IntegerOf(WithoutCommas(Field(line, 6))) > 0

\* The transaction of a well-formed line.
TransactionOf(raw) ==
    LET line == Trimmed(raw)
    IN  <<Field(line, 1), Field(line, 2), Field(line, 3),
          WithoutCommas(Field(line, 4)),
          IntegerOf(WithoutCommas(Field(line, 5))),
          IntegerOf(WithoutCommas(Field(line, 6))),
          Field(line, 7), Field(line, 8)>>

\* The data lines the loop has passed (the header is line 1 of the file).
PassedLines == 2..pos

BlankPassed == {i \in PassedLines : IsBlank(file[i])}

WellFormedPassed == {i \in PassedLines : ~IsBlank(file[i]) /\ WellFormedLine(file[i])}

MalformedPassed == {i \in PassedLines : ~IsBlank(file[i]) /\ ~WellFormedLine(file[i])}

\* C1: at every point of the parse, and so when the parser finishes,
\* invalid_count + the number of valid records = total_records, and
\* total_records counts exactly the non-blank lines passed: a blank line is
\* counted nowhere, a rejected line once in invalid_count and once in
\* total_records.
C1_CountsBalance ==
    /\ invalid_count + Len(valid_records) = total_records
    /\ total_records = Cardinality(PassedLines \ BlankPassed)
    /\ invalid_count = Cardinality(PassedLines \ BlankPassed) - Len(valid_records)

\* C1 witness: the parser finished a file with a rejected line and a valid
\* record.
C1_Witness ==
    /\ parser_pc = "returned"
    /\ invalid_count = 1
    /\ Len(valid_records) = 1
    /\ total_records = 2

\* C2: a record is emitted for exactly the well-formed lines (8 fields, a
\* transaction id starting with T, customer id and region not blank,
\* quantity and unit price integers after the commas are removed, both > 0);
\* every other non-blank line is counted invalid, the parser never ends in
\* an exception, and every emitted record has quantity > 0 and unit price > 0.
C2_EmitsExactlyWellFormed ==
    /\ Len(valid_records) = Cardinality(WellFormedPassed)
    /\ invalid_count = Cardinality(MalformedPassed)
    /\ \A k \in 1..Len(valid_records) :
          valid_records[k][5] > 0 /\ valid_records[k][6] > 0
    /\ parser_pc \in {"open", "loop", "returned"}

\* C2 witness: the line with unit price 0 was rejected, and a blank line
\* passed uncounted.
C2_Witness ==
    /\ parser_pc = "returned"
    /\ file = <<Header, Line_ZeroPrice, Line_Blank>>
    /\ invalid_count = 1
    /\ valid_records = <<>>

Text_T001 == <<"T", "0", "0", "1">>

Text_Date == <<"2", "0", "2", "4", "-", "0", "1", "-", "0", "5">>

Text_P101 == <<"P", "1", "0", "1">>

Text_WidgetPro == <<"W", "i", "d", "g", "e", "t", "P", "r", "o">>

Text_C001 == <<"C", "0", "0", "1">>

Text_North == <<"N", "o", "r", "t", "h">>

\* The transaction of the specification's scenario line.
ScenarioRecord ==
    <<Text_T001, Text_Date, Text_P101, Text_WidgetPro, 2, 500, Text_C001, Text_North>>

\* C3: the valid records are the transactions of the well-formed lines, in
\* the order of the lines: the 8 fields in their order, the commas removed
\* from the product name only, quantity and unit price the integers read
\* once their commas are removed; the scenario line gives quantity 2, unit
\* price 500, product name WidgetPro, region North and a line total of 1000.
C3_RecordsAreTheLines ==
    /\ Len(valid_records) = Cardinality(WellFormedPassed)
    /\ \A k \in 1..Len(valid_records) :
          LET raw == file[Nth(WellFormedPassed, k)]
          IN  /\ valid_records[k] = TransactionOf(raw)
              /\ raw = Line_Scenario =>
                    /\ valid_records[k] = ScenarioRecord
                    /\ valid_records[k][5] * valid_records[k][6] = 1000

\* C3 witness: the scenario line and the line with commas in the quantity
\* and in the customer id were both parsed.
C3_Witness ==
    /\ parser_pc = "returned"
    /\ file = <<Header, Line_Commas, Line_Scenario>>
    /\ Len(valid_records) = 2
    /\ valid_records[2] = ScenarioRecord
    /\ valid_records[1][5] = 10
    /\ valid_records[1][7] = <<"C", ",", "2">>

---------------------------------------------------------------------------
(* The enrichment merger's claims (C7, C8, C9), stated on the product id   *)
(* by positions, independently of ProductIdNum above.                      *)

\* The text of a product id after its first character.
SuffixOf(product_id) == [i \in 1..(Len(product_id) - 1) |-> product_id[i + 1]]

\* The product id carries a number after its prefix character.
HasNumber(product_id) == IsInteger(SuffixOf(product_id))

\* The transaction's product is in the mapping.
IsMapped(tx) ==
    /\ HasNumber(tx.ProductID)
    /\ Num(IntegerOf(SuffixOf(tx.ProductID))) \in DOMAIN product_mapping

MappedProduct(tx) == product_mapping[Num(IntegerOf(SuffixOf(tx.ProductID)))]

NoMatch(enriched_tx) ==
    /\ enriched_tx.API_Match = FALSE
    /\ enriched_tx.API_Category = None
    /\ enriched_tx.API_Brand = None
    /\ enriched_tx.API_Rating = None

MatchOf(enriched_tx, product) ==
    /\ enriched_tx.API_Match = TRUE
    /\ enriched_tx.API_Category = product.category
    /\ enriched_tx.API_Brand = product.brand
    /\ enriched_tx.API_Rating = product.rating

ApiFieldsTogether(enriched_tx) ==
    \/ /\ enriched_tx.API_Category = None
       /\ enriched_tx.API_Brand = None
       /\ enriched_tx.API_Rating = None
    \/ /\ enriched_tx.API_Category # None
       /\ enriched_tx.API_Brand # None
       /\ enriched_tx.API_Rating # None

C8_UnextractableIsNoMatch ==
    /\ \A k \in 1..Len(enriched_transactions) :
          ~HasNumber(transactions[k].ProductID) => NoMatch(enriched_transactions[k])
    /\ enrich_exc \in {"none", "OSError"}
    /\ Len(enriched_transactions) = tx_index
    /\ enrich_pc = "returned" => Len(enriched_transactions) = Len(transactions)

\* C8 witness: an unextractable product id first, then a hit.
C8_Witness ==
    /\ enrich_pc = "returned"
    /\ Len(transactions) = 2
    /\ transactions[1].ProductID = Pid_PX
    /\ transactions[2].ProductID = Pid_P1
    /\ enriched_transactions[1].API_Match = FALSE
    /\ enriched_transactions[2].API_Match = TRUE

TransactionKeys ==
    {"TransactionID", "Date", "ProductID", "ProductName", "Quantity",
     "UnitPrice", "CustomerID", "Region"}

\* C9: the enriched list has one element per transaction passed, in order,
\* with the transaction's own eight fields unchanged, and no step of the
\* enrichment changes the input transactions (which keep their eight keys).
C9_Additive ==
    /\ [](/\ Len(enriched_transactions) = tx_index
          /\ enrich_pc = "returned" => Len(enriched_transactions) = Len(transactions)
          /\ \A k \in 1..Len(enriched_transactions) :
                /\ \A key \in TransactionKeys :
                      enriched_transactions[k][key] = transactions[k][key]
                /\ DOMAIN transactions[k] = TransactionKeys)
    /\ [][transactions' = transactions]_vars

\* C9 witness: two transactions enriched, one of them matched.
C9_Witness ==
    /\ enrich_pc = "returned"
    /\ Len(enriched_transactions) = 2
    /\ enriched_transactions[1].API_Match = TRUE
    /\ enriched_transactions[1].TransactionID = "T001"
    /\ enriched_transactions[2].TransactionID = "T005"

\* The text of an API field in the output file: empty for a missing field
\* (None), the value as text for one that is there.
Rendered(v) ==
    IF v = None THEN ""
    ELSE IF v[1] = "num" THEN ToString(v[2]) ELSE v[2]

\* The row of the output file for an enriched transaction, column by column.
RowOf(tx) ==
    tx.TransactionID \o "|" \o tx.Date \o "|" \o Text(tx.ProductID) \o "|"
      \o tx.ProductName \o "|" \o ToString(tx.Quantity) \o "|"
      \o ToString(tx.UnitPrice) \o "|" \o tx.CustomerID \o "|" \o tx.Region \o "|"
      \o Rendered(tx.API_Category) \o "|" \o Rendered(tx.API_Brand) \o "|"
      \o Rendered(tx.API_Rating) \o "|"
      \o (IF tx.API_Match THEN "True" ELSE "False")

\* C15: the enriched output file holds the header row of 12 columns and one
\* row per enriched transaction, in order; an API field is written empty
\* when it is missing and as its value when it is there, API_Match as True
\* or False.
C15_FileRendersEveryField ==
    enrich_pc = "returned" =>
        /\ Len(enriched_file) = Len(enriched_transactions) + 1
        /\ enriched_file[1] =
               "TransactionID|Date|ProductID|ProductName|Quantity|UnitPrice|CustomerID|Region|API_Category|API_Brand|API_Rating|API_Match"
        /\ \A i \in 1..Len(enriched_transactions) :
               enriched_file[i + 1] = RowOf(enriched_transactions[i])

---------------------------------------------------------------------------
(* The aggregation engine's claims.                                         *)

\* C6: once both functions were applied to the transactions, the total
\* revenue equals the sum of the regions' total_sales of the region
\* summary, and the regions' transaction counts sum to the number of
\* transactions.
C6_RevenueIsSumOfRegions ==
    (total_revenue # Uncalled /\ region_sales # Uncalled) =>
        /\ total_revenue.state = "returned"
        /\ region_sales.state = "returned"
        /\ region_sales.value # None
        /\ LET summary == region_sales.value
               regions == {transactions[i].Region : i \in 1..Len(transactions)}
               SalesOf[rs \in SUBSET regions] ==
                   IF rs = {} THEN 0
                   ELSE LET r == CHOOSE x \in rs : TRUE
                        IN  summary[r].total_sales + SalesOf[rs \ {r}]
               CountOf[rs \in SUBSET regions] ==
                   IF rs = {} THEN 0
                   ELSE LET r == CHOOSE x \in rs : TRUE
                        IN  summary[r].transaction_count + CountOf[rs \ {r}]
           IN  /\ DOMAIN summary = regions
               /\ SalesOf[regions] = total_revenue.value
               /\ CountOf[regions] = Len(transactions)

\* The revenue of a date: the amounts of its transactions added up.
DayRevenue(date) ==
    LET on == {i \in 1..Len(transactions) : transactions[i].Date = date}
        Added[s \in SUBSET on] ==
            IF s = {} THEN 0
            ELSE LET i == CHOOSE k \in s : TRUE
                 IN  transactions[i].Quantity * transactions[i].UnitPrice + Added[s \ {i}]
    IN  Added[on]

\* C11: find_peak_sales_day returns a date of the transactions whose
\* revenue is at least that of every other date, with that revenue; for no
\* transactions it returns no date (None).
C11_PeakDayIsMaximal ==
    peak_day # Uncalled =>
        /\ peak_day.state = "returned"
        /\ IF transactions = <<>>
           THEN peak_day.value[1] = None
           ELSE \E i \in 1..Len(transactions) :
                   /\ peak_day.value[1] = Str(transactions[i].Date)
                   /\ peak_day.value[2] = DayRevenue(transactions[i].Date)
                   /\ \A j \in 1..Len(transactions) :
                          DayRevenue(transactions[j].Date) <= peak_day.value[2]

\* The products of the transactions, and the total of a field (or of the
\* amount) over the transactions of a product.
ProductsSold == {transactions[i].ProductName : i \in 1..Len(transactions)}

ProductQuantity(product) ==
    LET of == {i \in 1..Len(transactions) : transactions[i].ProductName = product}
        Added[s \in SUBSET of] ==
            IF s = {} THEN 0
            ELSE LET i == CHOOSE k \in s : TRUE
                 IN  transactions[i].Quantity + Added[s \ {i}]
    IN  Added[of]

ProductRevenue(product) ==
    LET of == {i \in 1..Len(transactions) : transactions[i].ProductName = product}
        Added[s \in SUBSET of] ==
            IF s = {} THEN 0
            ELSE LET i == CHOOSE k \in s : TRUE
                 IN  transactions[i].Quantity * transactions[i].UnitPrice + Added[s \ {i}]
    IN  Added[of]

\* A list of (product, quantity, revenue) entries: distinct products of the
\* transactions, each with its totals.
ProductEntries(list) ==
    /\ \A i \in 1..Len(list) :
           /\ list[i][1] \in ProductsSold
           /\ list[i][2] = ProductQuantity(list[i][1])
           /\ list[i][3] = ProductRevenue(list[i][1])
    /\ \A i, j \in 1..Len(list) : list[i][1] = list[j][1] => i = j

\* C12: top_selling_products returns at most 5 entries, the head of the
\* list of all products (each with its total quantity and total revenue)
\* sorted by total quantity, descending.
C12_TopProductsAreTheHead ==
    top_products # Uncalled =>
        /\ top_products.state = "returned"
        /\ LET top == top_products.value
           IN  /\ Len(top) = IF Cardinality(ProductsSold) < 5
                             THEN Cardinality(ProductsSold) ELSE 5
               /\ ProductEntries(top)
               /\ \A i \in 1..(Len(top) - 1) : top[i][2] >= top[i + 1][2]
               /\ \A p \in ProductsSold :
                      (\A i \in 1..Len(top) : top[i][1] # p) =>
                          \A i \in 1..Len(top) : top[i][2] >= ProductQuantity(p)

\* C13: low_performing_products (default threshold 10) returns exactly the
\* products whose total quantity is below the threshold, ordered by
\* quantity, ascending.
C13_LowProductsAreBelowThreshold ==
    low_products # Uncalled =>
        /\ low_products.state = "returned"
        /\ LET low == low_products.value
           IN  /\ ProductEntries(low)
               /\ {low[i][1] : i \in 1..Len(low)} =
                      {p \in ProductsSold : ProductQuantity(p) < 10}
               /\ \A i \in 1..(Len(low) - 1) : low[i][2] <= low[i + 1][2]

---------------------------------------------------------------------------
(* The report's claims.                                                     *)

\* C5: when a stage of the run fails no partial report is written: the
\* report file is there only when nothing was raised, and once the call is
\* over it holds every section.
C5_NoPartialReport ==
    /\ report_exc # "none" => ~report_file.exists
    /\ (report_pc \in {"returned", "raised"} /\ report_file.exists) =>
           /\ report_exc = "none"
           /\ Len(report_file.sections) = 8

\* C16: once generate_sales_report has computed its values, or has raised
\* in computing them, the best-selling day of the report (date and revenue)
\* is the result of find_peak_sales_day on the same transactions, and the
\* report has not failed where find_peak_sales_day returns no peak.
C16_ReportPeakIsEnginePeak ==
    (report_sections # <<>> \/ report_exc = "ValueError") =>
        LET peak == find_peak_sales_day(transactions)
        IN  /\ peak.state = "returned"
            /\ peak.value[1] = None => report_exc # "ValueError"
            /\ report_sections # <<>> =>
                   /\ Str(report_sections[7].peak_day.date) = peak.value[1]
                   /\ report_sections[7].peak_day.rev = peak.value[2]

---------------------------------------------------------------------------
(* The pipeline run's claims.                                               *)

\* C4: a failure raised by a stage of the run is caught at the outermost
\* boundary and reported as one failure message, after which the run ends;
\* the process never ends with an unhandled exception, and no message is
\* printed when nothing was raised.
C4_FailuresCaughtOnce ==
    /\ main_pc # "crashed"
    /\ main_exc = "none" => failure_messages = 0
    /\ main_exc # "none" => main_pc \in {"except", "returned"}
    /\ (main_exc # "none" /\ main_pc = "returned") => failure_messages = 1
    /\ main_pc = "except" => failure_messages = 0

\* A run in which a stage raised (the unbound name of step 4) has ended with
\* the one message.
C4_Witness ==
    /\ main_pc = "returned"
    /\ main_exc = "NameError"
    /\ failure_messages = 1
    /\ parsed_transactions # <<>>

\* C10: when the request for the products fails, a run over an input with
\* valid records still comes to the report: it ends without an exception
\* and with the report written.
C10_FetchFailureStillReports ==
    (/\ main_pc = "returned"
     /\ http.kind = "RequestException"
     /\ parsed_transactions # <<>>
     /\ filter_criteria = NoFilter) =>
        /\ main_exc = "none"
        /\ report_file.exists
        /\ report_pc = "returned"

---------------------------------------------------------------------------
(* The filter engine's claim, stated on the positions of the transactions. *)

\* The positions of the transactions that meet the criteria supplied: a
\* region criterion that is None or empty is not supplied.
Satisfying ==
    {i \in 1..Len(transactions) :
        /\ (criteria.region_filter \in {Str("North"), Str("north")} =>
                transactions[i].Region = criteria.region_filter[2])
        /\ (criteria.min_amount # None =>
                100 * transactions[i].Quantity * transactions[i].UnitPrice
                    >= criteria.min_amount[2])
        /\ (criteria.max_amount # None =>
                100 * transactions[i].Quantity * transactions[i].UnitPrice
                    <= criteria.max_amount[2])}

===========================================================================
